---- MODULE Spec2Model ----
(***************************************************************************)
(* A model of lm_engine/data/megatron/blended_dataset.py: BlendedDataset,  *)
(* the weighted blend of several MegatronDataset instances, its index      *)
(* construction (_build_indices) and the on-disk cache of the indices.     *)
(*                                                                         *)
(* Weights are exact rationals.  A weight vector is a sequence of natural  *)
(* numbers; after normalize() the weight of source i is                    *)
(* weights[i] / Sum(weights).  Every comparison of deficits is made on     *)
(* integers, scaled by Sum(weights).                                       *)
(*                                                                         *)
(* Source indices are 0-based as in the code: dataset_index holds values   *)
(* in 0..K-1 and source i has weight weights[i+1].  Arrays are sequences,  *)
(* so entry idx of an array (0-based in the code) is a[idx+1].             *)
(***************************************************************************)
EXTENDS Integers, Sequences, FiniteSets, TLC

\* ------------------------------------------------------------------ bounds

\* The planner is checked for 1..MaxK sources,
MaxK == 6
\* weight numerators 1..MaxWeight,
MaxWeight == 3
\* and target sizes up to MaxSize.
MaxSize == 8

\* ----------------------------------------------------------------- helpers

RECURSIVE Sum(_)
Sum(s) == IF s = <<>> THEN 0 ELSE Head(s) + Sum(Tail(s))

\* The sum of entries lo..hi of s, by halves: the depth of the evaluation
\* grows with the logarithm of the length, for the sequences of some 32767
\* weights.
RECURSIVE SumRange(_, _, _)
SumRange(s, lo, hi) ==
    IF lo > hi THEN 0
    ELSE IF lo = hi THEN s[lo]
    ELSE LET mid == (lo + hi) \div 2
         IN  SumRange(s, lo, mid) + SumRange(s, mid + 1, hi)

RECURSIVE GCD(_, _)
GCD(a, b) == IF b = 0 THEN a ELSE GCD(b, a % b)

RECURSIVE SeqGCD(_)
SeqGCD(s) == IF s = <<>> THEN 0 ELSE GCD(Head(s), SeqGCD(Tail(s)))

\* np.zeros(n, dtype): n zeros.
Zeros(n) == [i \in 1..n |-> 0]

\* The value an int16 array keeps of v (two's complement, 16 bits).
ToInt16(v) == ((v + 32768) % 65536) - 32768

\* normalize(weights): each weight divided by the sum of the weights.  On
\* exact rationals the result is the vector of numerators reduced by their
\* common divisor, its denominator being their sum.
normalize(num) == [i \in 1..Len(num) |-> num[i] \div SeqGCD(num)]

\* ----------------------------------------------------- build_blending_indices
\* The helper receives the two preallocated arrays, the weights, the number
\* of datasets and the size (blended_dataset.py:134-136); it does not receive
\* the lengths of the datasets.  Its state is a record:
\*   weights, num_datasets, size   the inputs,
\*   t                             the number of draws made,
\*   counts                        the per-source running counts c_i,
\*   dataset_index, dataset_sample_index   the two arrays being filled.

\* S * deficit_i at draw t, for 0-based source i, S = Sum(weights):
\* deficit_i = weight_i * t - c_i.
Deficit(weights, counts, t, i) == weights[i + 1] * t - counts[i + 1] * Sum(weights)

\* The scan over the sources: best is the index of the largest deficit among
\* sources 0..i-1; a later source replaces it only with a strictly larger one.
RECURSIVE ScanMax(_, _, _, _, _)
ScanMax(weights, counts, t, i, best) ==
    IF i >= Len(weights) THEN best
    ELSE ScanMax(weights, counts, t, i + 1,
                 IF Deficit(weights, counts, t, i) > Deficit(weights, counts, t, best)
                 THEN i ELSE best)

\* The scan with ties going to the later source.
RECURSIVE ScanMaxLast(_, _, _, _, _)
ScanMaxLast(weights, counts, t, i, best) ==
    IF i >= Len(weights) THEN best
    ELSE ScanMaxLast(weights, counts, t, i + 1,
                     IF Deficit(weights, counts, t, i) >= Deficit(weights, counts, t, best)
                     THEN i ELSE best)

\* The scan with the comparison reversed: it keeps the smallest deficit.
RECURSIVE ScanMin(_, _, _, _, _)
ScanMin(weights, counts, t, i, best) ==
    IF i >= Len(weights) THEN best
    ELSE ScanMin(weights, counts, t, i + 1,
                 IF Deficit(weights, counts, t, i) < Deficit(weights, counts, t, best)
                 THEN i ELSE best)

SelectSourceLast(weights, counts, t) == ScanMaxLast(weights, counts, t, 1, 0)

SelectSourceMin(weights, counts, t) == ScanMin(weights, counts, t, 1, 0)

SelectSource(weights, counts, t) == ScanMax(weights, counts, t, 1, 0)

\* One draw: draw number t = st.t + 1 selects a source, records it and the
\* source's running count, and increments that count.
DrawStep(st) ==
    LET t    == st.t + 1
        isel == SelectSource(st.weights, st.counts, t)
    IN  [st EXCEPT !.t = t,
                   !.dataset_index[t] = ToInt16(isel),
                   !.dataset_sample_index[t] = st.counts[isel + 1],
                   !.counts[isel + 1] = @ + 1]

\* The call of blended_dataset.py:132-136: two zero arrays of the size, then
\* the helper on (weights, len(datasets), size).
PlannerStart(weights, num_datasets, size) ==
    [weights |-> weights, num_datasets |-> num_datasets, size |-> size, t |-> 0,
     counts |-> Zeros(num_datasets),
     dataset_index |-> Zeros(size), dataset_sample_index |-> Zeros(size)]

RECURSIVE RunPlanner(_)
RunPlanner(st) == IF st.t >= st.size THEN st ELSE RunPlanner(DrawStep(st))

build_blending_indices(weights, num_datasets, size) ==
    LET st == RunPlanner(PlannerStart(weights, num_datasets, size))
    IN  [dataset_index |-> st.dataset_index,
         dataset_sample_index |-> st.dataset_sample_index]

\* ------------------------------------------------------------ configuration
\* A dataset is known to BlendedDataset by its unique_identifiers, its type,
\* its length and the samples it returns: sample j is a dictionary with the
\* keys in fields, each holding data + j.  A configuration is the arguments of __init__: datasets,
\* weights (num[i] / den each), size, config.path_to_cache (NoPath for None)
\* and caching_allowed.

NoPath == "None"

\* np.iinfo(np.int16).max
Int16Max == 32767

Abs(x) == IF x < 0 THEN -x ELSE x

\* np.isclose(sum(weights), 1.0), numpy's rtol = 1e-5 and atol = 1e-8:
\* |sum - 1| <= 1e-8 + 1e-5.
IsCloseToOne(weights) ==
    Abs(SumRange(weights.num, 1, Len(weights.num)) - weights.den) * 100000000
        <= 1001 * weights.den

\* The assertions of __init__.
Asserts(cfg) ==
    /\ Len(cfg.datasets) < Int16Max
    /\ Len(cfg.datasets) = Len(cfg.weights.num)
    /\ IsCloseToOne(cfg.weights)
    /\ \A i \in 1..Len(cfg.datasets) : cfg.datasets[i].type = cfg.datasets[1].type

\* self.weights = normalize(weights)
SelfWeights(cfg) == normalize(cfg.weights.num)

\* unique_identifiers, in the order of the OrderedDict, dumped by json.dumps.
unique_description(cfg) ==
    << "BlendedDataset",
       [i \in 1..Len(cfg.datasets) |-> cfg.datasets[i].unique_identifiers],
       SelfWeights(cfg),
       cfg.size >>

\* md5 of the description: a digest, taken to be free of collisions.
unique_description_hash(cfg) == [md5 |-> unique_description(cfg)]

\* get_path_to without the hash in the file name.
get_path_to_unkeyed(cfg, suffix) ==
    << cfg.path_to_cache, "BlendedDataset", suffix >>

\* get_path_to(suffix)
get_path_to(cfg, suffix) ==
    << cfg.path_to_cache, unique_description_hash(cfg), "BlendedDataset", suffix >>

path_to_description(cfg) == get_path_to(cfg, "description.txt")
path_to_dataset_index(cfg) == get_path_to(cfg, "dataset_index.npy")
path_to_dataset_sample_index(cfg) == get_path_to(cfg, "dataset_sample_index.npy")

\* The call of lines 134-136 with the two arrays in the other order.
BuildIndicesArraysSwapped(cfg) ==
    LET r == build_blending_indices(SelfWeights(cfg), Len(cfg.datasets), cfg.size)
    IN  [dataset_index |-> r.dataset_sample_index,
         dataset_sample_index |-> r.dataset_index]

\* The indices _build_indices builds (lines 132-136).
BuildIndices(cfg) ==
    build_blending_indices(SelfWeights(cfg), Len(cfg.datasets), cfg.size)

\* ------------------------------------------------------------------- state

VARIABLES
    planner,   \* the state of build_blending_indices, when run on its own
    caller,    \* per caller: its place in __init__ / _build_indices, its
               \* configuration, the indices it holds and how it got them
    dirs,      \* the directories that exist
    files      \* the files that exist: path -> [complete, data]

vars == <<planner, caller, dirs, files>>

\* ------------------------------------------------------------ the callers
\* Each caller constructs one BlendedDataset; the callers (the ranks of a
\* distributed job) share the file system.

\* The callers that run concurrently,
NumCallers == 2

Callers == 1..NumCallers

\* and the callers that run one after the other.
NumSeqCallers == 3

SeqCallers == 1..NumSeqCallers

\* The sizes of the blends the callers build: BlendSize and BlendSize - 1.
BlendSize == 3

DatasetA ==
    [unique_identifiers |-> "A", type |-> "GPTDataset", len |-> 1,
     fields |-> {"text"}, data |-> 100]
DatasetB ==
    [unique_identifiers |-> "B", type |-> "GPTDataset", len |-> BlendSize,
     fields |-> {"text"}, data |-> 200]
DatasetC ==
    [unique_identifiers |-> "C", type |-> "GPTDataset", len |-> 2,
     fields |-> {"text"}, data |-> 300]

\* The base blend; the blends that differ from it in the order of the
\* datasets, in a dataset, in a weight, in the size, or in the weights as
\* given but not as normalized; and a blend whose weights fail an assertion.
BaseBlend ==
    [datasets |-> <<DatasetA, DatasetB>>, weights |-> [num |-> <<1, 1>>, den |-> 2],
     size |-> BlendSize]

VariantBlends ==
    { [BaseBlend EXCEPT !.datasets = <<DatasetB, DatasetA>>],
      [BaseBlend EXCEPT !.datasets = <<DatasetA, DatasetC>>],
      [BaseBlend EXCEPT !.weights = [num |-> <<1, 2>>, den |-> 3]],
      [BaseBlend EXCEPT !.size = BlendSize - 1],
      [BaseBlend EXCEPT !.weights = [num |-> <<2, 2>>, den |-> 4]] }

InvalidBlend == [BaseBlend EXCEPT !.weights = [num |-> <<1, 1>>, den |-> 3]]

Blends == {BaseBlend, InvalidBlend} \cup VariantBlends

Paths == {NoPath, "cache1", "cache2"}

Config(b, p, a) ==
    [datasets |-> b.datasets, weights |-> b.weights, size |-> b.size,
     path_to_cache |-> p, caching_allowed |-> a]

\* Every blend with every path and either value of caching_allowed.
AllConfigs == { Config(b, p, a) : b \in Blends, p \in Paths, a \in BOOLEAN }

\* The configurations of the concurrent callers: the base blend with every
\* path, and the other blends in the first cache directory, where their
\* artifacts lie beside those of the base blend.
Configs ==
    { Config(BaseBlend, p, a) : p \in Paths, a \in BOOLEAN }
    \cup { Config(b, "cache1", a) : b \in VariantBlends, a \in BOOLEAN }
    \cup { Config(InvalidBlend, "cache1", TRUE) }

\* The last call of __getitem__ on the caller's BlendedDataset: whether there
\* was one, its idx, the error it raised and the dictionary it returned.
NoGet == [called |-> FALSE, idx |-> 0, error |-> "none", item |-> <<>>]

IdleCaller ==
    [pc |-> "idle", cfg |-> <<>>, cache_hit |-> FALSE, how |-> "none", error |-> "none",
     dataset_index |-> <<>>, dataset_sample_index |-> <<>>, got |-> NoGet]

\* os.path.isfile
isfile(p) == p \in DOMAIN files

\* A file as open(path, "w") leaves it: it exists, with nothing in it yet.
OpenedFile == [complete |-> FALSE, data |-> <<>>]

\* A file whose writer has written all of data.
WrittenFile(data) == [complete |-> TRUE, data |-> data]

PutFile(p, f) == [q \in DOMAIN files \cup {p} |-> IF q = p THEN f ELSE files[q]]

\* cache_hit (lines 109-123): a cache path is set and the three files exist.
CacheHit(cfg) ==
    /\ cfg.path_to_cache # NoPath
    /\ isfile(path_to_description(cfg))
    /\ isfile(path_to_dataset_index(cfg))
    /\ isfile(path_to_dataset_sample_index(cfg))

\* The condition of line 125 without "not path_to_cache".
BuildConditionMissOnly(cfg) == ~CacheHit(cfg) /\ cfg.caching_allowed

\* The condition of line 125 without "not cache_hit".
BuildConditionAllowed(cfg) == cfg.path_to_cache = NoPath \/ cfg.caching_allowed

\* The condition of line 125 without "self.caching_allowed".
BuildConditionAnyMiss(cfg) == cfg.path_to_cache = NoPath \/ ~CacheHit(cfg)

\* The condition of line 125.
BuildCondition(cfg) ==
    \/ cfg.path_to_cache = NoPath
    \/ (~CacheHit(cfg) /\ cfg.caching_allowed)

\* a[idx] of a numpy array or a list: a negative idx counts from the end; the
\* position (0-based) read, or -1 when idx is out of range (IndexError).
Position(n, idx) ==
    LET i == IF idx < 0 THEN idx + n ELSE idx
    IN  IF i >= 0 /\ i < n THEN i ELSE -1

\* __getitem__ (lines 88-94) raises IndexError: from dataset_index[idx], from
\* dataset_sample_index[idx], from self.datasets[dataset_id], or from the
\* dataset, whose samples are 0..len-1.
GetItemRaises(cl, idx) ==
    LET i == Position(Len(cl.dataset_index), idx)
        j == Position(Len(cl.dataset_sample_index), idx)
    IN  \/ i = -1
        \/ j = -1
        \/ LET d == Position(Len(cl.cfg.datasets), cl.dataset_index[i + 1])
           IN  \/ d = -1
               \/ cl.dataset_sample_index[j + 1] \notin 0..(cl.cfg.datasets[d + 1].len - 1)

\* dataset[j] for j in range: the sample, a dictionary.
Sample(ds, j) == [f \in ds.fields |-> ds.data + j]

\* The dictionary of lines 91-94: {"dataset_id": dataset_id, **sample}; a key
\* of the sample that is given twice keeps the value given last.
Item(dataset_id, sample) ==
    [f \in {"dataset_id"} \cup DOMAIN sample |->
        IF f \in DOMAIN sample THEN sample[f] ELSE dataset_id]

\* __getitem__ (lines 88-94): the error raised and the dictionary returned.
GetItemResult(cl, idx) ==
    IF GetItemRaises(cl, idx)
    THEN [error |-> "IndexError", item |-> <<>>]
    ELSE LET dataset_id        == cl.dataset_index[Position(Len(cl.dataset_index), idx) + 1]
             dataset_sample_id ==
                 cl.dataset_sample_index[Position(Len(cl.dataset_sample_index), idx) + 1]
             ds == cl.cfg.datasets[Position(Len(cl.cfg.datasets), dataset_id) + 1]
         IN  [error |-> "none", item |-> Item(dataset_id, Sample(ds, dataset_sample_id))]

\* __len__ (lines 85-86)
Length(cl) == cl.cfg.size

\* The check of lines 77-83 without the access to self[size].
CheckSizeLowerOnly(cl) ==
    IF GetItemRaises(cl, cl.cfg.size - 1)
    THEN [cl EXCEPT !.pc = "failed", !.error = "IndexError"]
    ELSE [cl EXCEPT !.pc = "done"]

\* __init__, lines 75-83, once _build_indices has returned: the indices are
\* kept, self[size - 1] must not raise and self[size] must raise IndexError.
\* The caller record after it.
CheckSize(cl) ==
    IF GetItemRaises(cl, cl.cfg.size - 1)
    THEN [cl EXCEPT !.pc = "failed", !.error = "IndexError"]
    ELSE IF ~GetItemRaises(cl, cl.cfg.size)
    THEN [cl EXCEPT !.pc = "failed", !.error = "RuntimeError"]
    ELSE [cl EXCEPT !.pc = "done"]

\* _build_indices, lines 107-136: the cache is looked up and the branch of
\* line 125 is taken; on the building branch the indices are built, and with
\* no cache path they are returned (line 152).  The caller record after it.
BuildOrLoad(cl) ==
    LET cfg == cl.cfg
        idx == BuildIndices(cfg)
    IN  IF BuildCondition(cfg)
        THEN IF cfg.path_to_cache # NoPath
             THEN [cl EXCEPT !.pc = "makedirs",
                             !.dataset_index = idx.dataset_index,
                             !.dataset_sample_index = idx.dataset_sample_index]
             ELSE CheckSize([cl EXCEPT !.how = "built",
                                       !.dataset_index = idx.dataset_index,
                                       !.dataset_sample_index = idx.dataset_sample_index])
        ELSE [cl EXCEPT !.pc = "load_dataset_index", !.cache_hit = CacheHit(cfg)]

\* __init__ up to the first access to a file that _build_indices writes or
\* loads: the assertions (lines 48-51), the description and its hash (lines
\* 58-73) and _build_indices (line 75) as far as the branch of line 125.
\* These steps read the file system once, in the lookup for the cache.
Construct(c, cfg) ==
    /\ caller[c].pc = "idle"
    /\ caller' = [caller EXCEPT ![c] =
          IF Asserts(cfg)
          THEN BuildOrLoad([@ EXCEPT !.cfg = cfg])
          ELSE [@ EXCEPT !.pc = "failed", !.cfg = cfg, !.error = "AssertionError"]]
    /\ UNCHANGED <<planner, dirs, files>>

\* The callers run the same code, so they are numbered in the order in which
\* they start.
InOrder(c) == \A d \in DOMAIN caller : d < c => caller[d].pc # "idle"

Init__(c) == InOrder(c) /\ \E cfg \in Configs : Construct(c, cfg)

\* line 139: os.makedirs(path_to_cache, exist_ok=True)
MakeDirs(c) ==
    /\ caller[c].pc = "makedirs"
    /\ dirs' = dirs \cup {caller[c].cfg.path_to_cache}
    /\ caller' = [caller EXCEPT ![c].pc = "open_description"]
    /\ UNCHANGED <<planner, files>>

\* line 141: open(path_to_description, "wt") creates or truncates the file.
OpenDescription(c) ==
    /\ caller[c].pc = "open_description"
    /\ files' = PutFile(path_to_description(caller[c].cfg), OpenedFile)
    /\ caller' = [caller EXCEPT ![c].pc = "write_description"]
    /\ UNCHANGED <<planner, dirs>>

\* lines 141-142: the description is written and the file closed.
WriteDescription(c) ==
    /\ caller[c].pc = "write_description"
    /\ files' = PutFile(path_to_description(caller[c].cfg),
                        WrittenFile(unique_description(caller[c].cfg)))
    /\ caller' = [caller EXCEPT ![c].pc = "open_dataset_index"]
    /\ UNCHANGED <<planner, dirs>>

\* line 144: np.save opens the file for writing, creating or truncating it,
OpenDatasetIndex(c) ==
    /\ caller[c].pc = "open_dataset_index"
    /\ files' = PutFile(path_to_dataset_index(caller[c].cfg), OpenedFile)
    /\ caller' = [caller EXCEPT ![c].pc = "write_dataset_index"]
    /\ UNCHANGED <<planner, dirs>>

\* The save of line 144 given the path of line 145.
WriteDatasetIndexWrongPath(c) ==
    /\ caller[c].pc = "write_dataset_index"
    /\ files' = PutFile(path_to_dataset_sample_index(caller[c].cfg),
                        WrittenFile(caller[c].dataset_index))
    /\ caller' = [caller EXCEPT ![c].pc = "open_dataset_sample_index"]
    /\ UNCHANGED <<planner, dirs>>

\* and writes the array.
WriteDatasetIndex(c) ==
    /\ caller[c].pc = "write_dataset_index"
    /\ files' = PutFile(path_to_dataset_index(caller[c].cfg),
                        WrittenFile(caller[c].dataset_index))
    /\ caller' = [caller EXCEPT ![c].pc = "open_dataset_sample_index"]
    /\ UNCHANGED <<planner, dirs>>

\* line 145, likewise.
OpenDatasetSampleIndex(c) ==
    /\ caller[c].pc = "open_dataset_sample_index"
    /\ files' = PutFile(path_to_dataset_sample_index(caller[c].cfg), OpenedFile)
    /\ caller' = [caller EXCEPT ![c].pc = "write_dataset_sample_index"]
    /\ UNCHANGED <<planner, dirs>>

\* The save of line 145 given the array of line 144.
WriteDatasetSampleIndexSwapped(c) ==
    /\ caller[c].pc = "write_dataset_sample_index"
    /\ files' = PutFile(path_to_dataset_sample_index(caller[c].cfg),
                        WrittenFile(caller[c].dataset_index))
    /\ caller' = [caller EXCEPT ![c] = CheckSize([@ EXCEPT !.how = "persisted"])]
    /\ UNCHANGED <<planner, dirs>>

\* The array is written, _build_indices returns the arrays it built (line
\* 152) and __init__ checks the size.
WriteDatasetSampleIndex(c) ==
    /\ caller[c].pc = "write_dataset_sample_index"
    /\ files' = PutFile(path_to_dataset_sample_index(caller[c].cfg),
                        WrittenFile(caller[c].dataset_sample_index))
    /\ caller' = [caller EXCEPT ![c] = CheckSize([@ EXCEPT !.how = "persisted"])]
    /\ UNCHANGED <<planner, dirs>>

\* np.load that takes whatever part of an array the file holds.
LoadErrorLenient(p) == IF ~isfile(p) THEN "FileNotFoundError" ELSE "none"

\* np.load(path, mmap_mode="r"): FileNotFoundError when the file does not
\* exist, ValueError when it holds less than a whole array, the array
\* otherwise.
LoadError(p) ==
    IF ~isfile(p) THEN "FileNotFoundError"
    ELSE IF ~files[p].complete THEN "ValueError"
    ELSE "none"

\* line 158 in a loop that waits for the file to be there and whole.
LoadDatasetIndexWaits(c) ==
    /\ caller[c].pc = "load_dataset_index"
    /\ LET p == path_to_dataset_index(caller[c].cfg)
       IN  /\ LoadError(p) = "none"
           /\ caller' = [caller EXCEPT ![c] =
                  [@ EXCEPT !.pc = "load_dataset_sample_index",
                            !.dataset_index = files[p].data]]
    /\ UNCHANGED <<planner, dirs, files>>

\* line 158
LoadDatasetIndex(c) ==
    /\ caller[c].pc = "load_dataset_index"
    /\ LET p == path_to_dataset_index(caller[c].cfg)
       IN  caller' = [caller EXCEPT ![c] =
              IF LoadError(p) # "none"
              THEN [@ EXCEPT !.pc = "failed", !.how = "error", !.error = LoadError(p)]
              ELSE [@ EXCEPT !.pc = "load_dataset_sample_index",
                             !.dataset_index = files[p].data]]
    /\ UNCHANGED <<planner, dirs, files>>

\* The load of line 164 given the path of line 158.
LoadDatasetSampleIndexWrongPath(c) ==
    /\ caller[c].pc = "load_dataset_sample_index"
    /\ LET p == path_to_dataset_index(caller[c].cfg)
       IN  caller' = [caller EXCEPT ![c] =
              IF LoadError(p) # "none"
              THEN [@ EXCEPT !.pc = "failed", !.how = "error", !.error = LoadError(p)]
              ELSE CheckSize([@ EXCEPT !.how = "loaded",
                                       !.dataset_sample_index = files[p].data])]
    /\ UNCHANGED <<planner, dirs, files>>

\* line 164; _build_indices returns the arrays it loaded (line 168) and
\* __init__ checks the size.
LoadDatasetSampleIndex(c) ==
    /\ caller[c].pc = "load_dataset_sample_index"
    /\ LET p == path_to_dataset_sample_index(caller[c].cfg)
       IN  caller' = [caller EXCEPT ![c] =
              IF LoadError(p) # "none"
              THEN [@ EXCEPT !.pc = "failed", !.how = "error", !.error = LoadError(p)]
              ELSE CheckSize([@ EXCEPT !.how = "loaded",
                                       !.dataset_sample_index = files[p].data])]
    /\ UNCHANGED <<planner, dirs, files>>

\* self[idx] on a constructed BlendedDataset.
GetItem(c, idx) ==
    /\ caller[c].pc = "done"
    /\ LET r == GetItemResult(caller[c], idx)
       IN  caller' = [caller EXCEPT ![c].got =
              [called |-> TRUE, idx |-> idx, error |-> r.error, item |-> r.item]]
    /\ UNCHANGED <<planner, dirs, files>>

Init ==
    /\ planner = PlannerStart(<<1>>, 1, 0)
    /\ caller = [c \in Callers |-> IdleCaller]
    /\ dirs = {}
    /\ files = <<>>

Next ==
    \E c \in Callers :
        \/ Init__(c)
        \/ MakeDirs(c)
        \/ OpenDescription(c)
        \/ WriteDescription(c)
        \/ OpenDatasetIndex(c)
        \/ WriteDatasetIndex(c)
        \/ OpenDatasetSampleIndex(c)
        \/ WriteDatasetSampleIndex(c)
        \/ LoadDatasetIndex(c)
        \/ LoadDatasetSampleIndex(c)

Spec == Init /\ [][Next]_vars

\* The next statement of a caller that is inside __init__: none of them
\* blocks, so a process that is scheduled runs it.
Running(c) ==
    \/ MakeDirs(c)
    \/ OpenDescription(c)
    \/ WriteDescription(c)
    \/ OpenDatasetIndex(c)
    \/ WriteDatasetIndex(c)
    \/ OpenDatasetSampleIndex(c)
    \/ WriteDatasetSampleIndex(c)
    \/ LoadDatasetIndex(c)
    \/ LoadDatasetSampleIndex(c)

\* The configurations of the callers that are scheduled fairly: one blend
\* with no cache or in one cache directory, the base blend beside it, and the
\* blend whose weights fail the assertions.
FairConfigs ==
    { Config([BaseBlend EXCEPT !.size = BlendSize - 1], "cache1", a) : a \in BOOLEAN }
    \cup { Config([BaseBlend EXCEPT !.size = BlendSize - 1], NoPath, FALSE),
           Config(BaseBlend, "cache1", TRUE),
           Config(InvalidBlend, "cache1", TRUE) }

InitFair(c) == InOrder(c) /\ \E cfg \in FairConfigs : Construct(c, cfg)

NextFair ==
    \E c \in Callers :
        \/ InitFair(c)
        \/ MakeDirs(c)
        \/ OpenDescription(c)
        \/ WriteDescription(c)
        \/ OpenDatasetIndex(c)
        \/ WriteDatasetIndex(c)
        \/ OpenDatasetSampleIndex(c)
        \/ WriteDatasetSampleIndex(c)
        \/ LoadDatasetIndex(c)
        \/ LoadDatasetSampleIndex(c)

\* The concurrent callers, each of them scheduled again and again once it has
\* called __init__; a process need not call __init__ at all.
SpecFair == Init /\ [][NextFair]_vars /\ \A c \in Callers : WF_vars(Running(c))

\* ------------------------------------------------ one caller after the other
\* The callers construct their BlendedDataset in turn, each after the one
\* before it has finished, all from the same datasets, weights and size; they
\* differ in path_to_cache and caching_allowed.

Finished(cl) == cl.pc \in {"done", "failed"}

Blend(cfg) == [datasets |-> cfg.datasets, weights |-> cfg.weights, size |-> cfg.size]

InitSeq ==
    /\ planner = PlannerStart(<<1>>, 1, 0)
    /\ caller = [c \in SeqCallers |-> IdleCaller]
    /\ dirs = {}
    /\ files = <<>>

InitInTurn(c) ==
    /\ \A d \in SeqCallers : d < c => Finished(caller[d])
    /\ \E cfg \in AllConfigs :
          /\ \A d \in SeqCallers : d < c => Blend(caller[d].cfg) = Blend(cfg)
          /\ Construct(c, cfg)

NextSeq ==
    \E c \in SeqCallers :
        \/ InitInTurn(c)
        \/ MakeDirs(c)
        \/ OpenDescription(c)
        \/ WriteDescription(c)
        \/ OpenDatasetIndex(c)
        \/ WriteDatasetIndex(c)
        \/ OpenDatasetSampleIndex(c)
        \/ WriteDatasetSampleIndex(c)
        \/ LoadDatasetIndex(c)
        \/ LoadDatasetSampleIndex(c)

SpecSeq == InitSeq /\ [][NextSeq]_vars

\* ------------------------------------------- callers after one that stopped
\* The callers construct their BlendedDataset in turn from the same datasets,
\* weights and size over the same path_to_cache; the process of a caller may
\* stop for good between two statements of lines 138-145, leaving the files
\* as they are then: none, some, or one that is opened and not written.

Persisting ==
    {"makedirs", "open_description", "write_description", "open_dataset_index",
     "write_dataset_index", "open_dataset_sample_index", "write_dataset_sample_index"}

\* The process of the caller stops while it persists the indices.
Crash(c) ==
    /\ caller[c].pc \in Persisting
    /\ caller' = [caller EXCEPT ![c].pc = "crashed"]
    /\ UNCHANGED <<planner, dirs, files>>

Stopped(cl) == Finished(cl) \/ cl.pc = "crashed"

InitAfter(c) ==
    /\ \A d \in SeqCallers : d < c => Stopped(caller[d])
    /\ \E cfg \in AllConfigs :
          /\ \A d \in SeqCallers : d < c =>
                /\ Blend(caller[d].cfg) = Blend(cfg)
                /\ caller[d].cfg.path_to_cache = cfg.path_to_cache
          /\ Construct(c, cfg)

NextCrash ==
    \E c \in SeqCallers :
        \/ InitAfter(c)
        \/ MakeDirs(c)
        \/ OpenDescription(c)
        \/ WriteDescription(c)
        \/ OpenDatasetIndex(c)
        \/ WriteDatasetIndex(c)
        \/ OpenDatasetSampleIndex(c)
        \/ WriteDatasetSampleIndex(c)
        \/ LoadDatasetIndex(c)
        \/ LoadDatasetSampleIndex(c)
        \/ Crash(c)

SpecCrash == InitSeq /\ [][NextCrash]_vars

\* ------------------------------------------- one caller and the cache it finds
\* One caller constructs a BlendedDataset over a cache directory as earlier
\* runs or other programs left it, and then reads samples from it.

ViewCallers == {1}

ViewPath == "cache1"

\* A dataset whose samples carry a key "dataset_id" of their own.
DatasetD ==
    [unique_identifiers |-> "D", type |-> "GPTDataset", len |-> BlendSize,
     fields |-> {"text", "dataset_id"}, data |-> 400]

\* Two datasets of lengths 3 and 2 with the weights 0.6 and 0.4 and the size
\* 5, and the dataset of length 2 alone with the size 4.
DatasetOfThree ==
    [unique_identifiers |-> "S3", type |-> "GPTDataset", len |-> 3,
     fields |-> {"text"}, data |-> 500]

DatasetOfTwo ==
    [unique_identifiers |-> "S2", type |-> "GPTDataset", len |-> 2,
     fields |-> {"text"}, data |-> 600]

BlendOfThreeAndTwo ==
    [datasets |-> <<DatasetOfThree, DatasetOfTwo>>,
     weights |-> [num |-> <<3, 2>>, den |-> 5], size |-> 5]

BlendOfTwoAlone ==
    [datasets |-> <<DatasetOfTwo>>, weights |-> [num |-> <<1>>, den |-> 1], size |-> 4]

\* Two datasets in either order with the size BlendSize or BlendSize + 1, a
\* blend of size 0, a blend of one dataset, a blend with DatasetD, and the
\* two blends above.
ViewBlends ==
    { [BaseBlend EXCEPT !.datasets = ds, !.size = n] :
          ds \in {<<DatasetA, DatasetB>>, <<DatasetB, DatasetA>>},
          n \in {BlendSize, BlendSize + 1} }
    \cup { [BaseBlend EXCEPT !.size = 0],
           [datasets |-> <<DatasetB>>, weights |-> [num |-> <<1>>, den |-> 1],
            size |-> BlendSize],
           [BaseBlend EXCEPT !.datasets = <<DatasetD, DatasetB>>],
           BlendOfThreeAndTwo,
           BlendOfTwoAlone }

ViewConfigs == { Config(b, p, a) : b \in ViewBlends, p \in {NoPath, ViewPath}, a \in BOOLEAN }

\* What the directory holds under the hash of a blend: nothing; the files as
\* _build_indices writes them; those files with another description; arrays
\* of the size with other entries; arrays one entry short; arrays one entry
\* long; and one array of the two one entry long.
CacheKinds ==
    {"empty", "valid", "description", "content", "short", "long", "long_index",
     "long_sample"}

CacheArrays(b, kind) ==
    LET idx == BuildIndices(b)
        di  == idx.dataset_index
        dsi == idx.dataset_sample_index
    IN  IF kind = "content"
        THEN [dataset_index |-> Zeros(b.size), dataset_sample_index |-> Zeros(b.size)]
        ELSE IF kind = "short"
        THEN [dataset_index |-> SubSeq(di, 1, b.size - 1),
              dataset_sample_index |-> SubSeq(dsi, 1, b.size - 1)]
        ELSE [dataset_index |->
                 IF kind \in {"long", "long_index"} THEN Append(di, 0) ELSE di,
              dataset_sample_index |->
                 IF kind \in {"long", "long_sample"} THEN Append(dsi, 0) ELSE dsi]

CacheDescription(b, kind) ==
    IF kind = "description" THEN <<"BlendedDataset", "another description">>
    ELSE unique_description(b)

CacheFiles(b, kind) ==
    LET cfg == Config(b, ViewPath, TRUE)
        a   == CacheArrays(b, kind)
    IN  IF kind = "empty" THEN <<>>
        ELSE (path_to_description(cfg) :> WrittenFile(CacheDescription(b, kind)))
             @@ (path_to_dataset_index(cfg) :> WrittenFile(a.dataset_index))
             @@ (path_to_dataset_sample_index(cfg) :> WrittenFile(a.dataset_sample_index))

\* The values of idx the caller passes to __getitem__.
GetIndices == (0 - BlendSize - 2)..(BlendSize + 2)

InitView ==
    /\ planner = PlannerStart(<<1>>, 1, 0)
    /\ caller = [c \in ViewCallers |-> IdleCaller]
    /\ \E b \in ViewBlends, kind \in CacheKinds :
          /\ files = CacheFiles(b, kind)
          /\ dirs = IF kind = "empty" THEN {} ELSE {ViewPath}

ConstructView(c) == \E cfg \in ViewConfigs : Construct(c, cfg)

GetItemAt(c) == \E idx \in GetIndices : GetItem(c, idx)

NextView ==
    \E c \in ViewCallers :
        \/ ConstructView(c)
        \/ MakeDirs(c)
        \/ OpenDescription(c)
        \/ WriteDescription(c)
        \/ OpenDatasetIndex(c)
        \/ WriteDatasetIndex(c)
        \/ OpenDatasetSampleIndex(c)
        \/ WriteDatasetSampleIndex(c)
        \/ LoadDatasetIndex(c)
        \/ LoadDatasetSampleIndex(c)
        \/ GetItemAt(c)

SpecView == InitView /\ [][NextView]_vars

\* ------------------------------------------------ the assertions of __init__
\* The assertions of lines 48-51 on their own, on the arguments of one call
\* of __init__: few datasets, and as many as an int16 can count.

AssertCallers == {1}

DatasetCounts == {1, 2, Int16Max - 1, Int16Max, Int16Max + 1}

\* n weights of 1 / den each.
UniformWeights(n, den) == [num |-> [i \in 1..n |-> 1], den |-> den]

\* DatasetA as an instance of another class: the same unique_identifiers,
\* length and samples.
DatasetAOfOtherType == [DatasetA EXCEPT !.type = "MockGPTDataset"]

\* Two datasets with equal weights, each of one class or the other.
MixedTypeConfigs ==
    { Config([datasets |-> <<d1, d2>>,
              weights  |-> UniformWeights(2, 2),
              size     |-> n],
             NoPath, FALSE) :
          d1 \in {DatasetA, DatasetAOfOtherType},
          d2 \in {DatasetA, DatasetAOfOtherType},
          n \in {0, 1, BlendSize} }

\* k datasets, with as many weights as datasets or one fewer or one more, the
\* weights summing to 1 or not; and the configurations of mixed types.
AssertConfigs ==
    { Config([datasets |-> [i \in 1..k |-> DatasetA],
              weights  |-> UniformWeights(k + dn, IF k + dn = 0 THEN 1 ELSE k + dn + dd),
              size     |-> n],
             NoPath, FALSE) :
          k \in DatasetCounts, dn \in {-1, 0, 1}, dd \in {0, 1},
          n \in {0, 1, BlendSize} }
    \cup MixedTypeConfigs

InitAsserts ==
    /\ planner = PlannerStart(<<1>>, 1, 0)
    /\ \E cfg \in AssertConfigs :
          caller = [c \in AssertCallers |-> [IdleCaller EXCEPT !.pc = "called", !.cfg = cfg]]
    /\ dirs = {}
    /\ files = <<>>

\* lines 48-51: an assertion that fails raises AssertionError.
AssertArguments(c) ==
    /\ caller[c].pc = "called"
    /\ caller' = [caller EXCEPT ![c] =
          IF Asserts(@.cfg)
          THEN [@ EXCEPT !.pc = "asserted"]
          ELSE [@ EXCEPT !.pc = "failed", !.error = "AssertionError"]]
    /\ UNCHANGED <<planner, dirs, files>>

NextAsserts == \E c \in AssertCallers : AssertArguments(c)

SpecAsserts == InitAsserts /\ [][NextAsserts]_vars

\* ------------------------------------------------------ claims on the indices

\* The caller holds the indices _build_indices returned.
Resolved(cl) == cl.how \in {"built", "persisted", "loaded"}

\* The caller is past the cache lookup of _build_indices.
LookedUp(cl) == cl.pc # "idle" /\ cl.error # "AssertionError"

\* The number of entries before entry n (1-based) of the caller's
\* dataset_index that name the same source as entry n.
EarlierDraws(cl, n) ==
    Cardinality({k \in 1..(n - 1) : cl.dataset_index[k] = cl.dataset_index[n]})

\* The length of the source entry n of the caller's dataset_index names.
SourceLen(cl, n) == cl.cfg.datasets[cl.dataset_index[n] + 1].len

AllCallers == DOMAIN caller

\* C3: for every draw t, sample_index[t-1] equals the number of earlier draws
\* assigned to the same source, modulo that source's length.
C3_SampleIndexWraps ==
    \A c \in AllCallers :
        Resolved(caller[c]) =>
            \A n \in 1..Len(caller[c].dataset_sample_index) :
                caller[c].dataset_sample_index[n]
                    = EarlierDraws(caller[c], n) % SourceLen(caller[c], n)

\* C4: every plan returned by _build_indices, built or loaded, has for all i
\* in [0, N): 0 <= source_index[i] < K and
\* 0 <= sample_index[i] < length(sources[source_index[i]]).
C4_PlanInBounds ==
    \A c \in AllCallers :
        Resolved(caller[c]) =>
            \A n \in 1..caller[c].cfg.size :
                /\ n <= Len(caller[c].dataset_index)
                /\ n <= Len(caller[c].dataset_sample_index)
                /\ caller[c].dataset_index[n] >= 0
                /\ caller[c].dataset_index[n] < Len(caller[c].cfg.datasets)
                /\ caller[c].dataset_sample_index[n] >= 0
                /\ caller[c].dataset_sample_index[n] < SourceLen(caller[c], n)

\* --------------------------------------------------------- claims on the cache

ArtifactPaths(cfg) ==
    {path_to_description(cfg), path_to_dataset_index(cfg),
     path_to_dataset_sample_index(cfg)}

\* Every artifact of the configuration exists and is completely written.
ArtifactsComplete(cfg) ==
    \A p \in ArtifactPaths(cfg) : isfile(p) /\ files[p].complete

\* The caller is loading the artifacts.
Loading(cl) == cl.pc \in {"load_dataset_index", "load_dataset_sample_index"}

\* The caller is persisting, or has persisted, the artifacts.
Writes(cl) ==
    \/ cl.pc \in {"open_description", "write_description", "open_dataset_index",
                  "write_dataset_index", "open_dataset_sample_index",
                  "write_dataset_sample_index"}
    \/ cl.how = "persisted"

\* C5: no caller classifies the cache as a hit and loads a set of artifacts
\* of which a file is missing or only partially written.
C5_NoPartialRead ==
    \A c \in AllCallers :
        (Loading(caller[c]) /\ caller[c].cache_hit) => ArtifactsComplete(caller[c].cfg)

\* C6: of the callers that resolve configurations of the same cache key
\* against the same cache directory, at most one writes the artifacts.
C6_AtMostOneWriter ==
    \A c1, c2 \in AllCallers :
        ( /\ Writes(caller[c1])
          /\ Writes(caller[c2])
          /\ ArtifactPaths(caller[c1].cfg) = ArtifactPaths(caller[c2].cfg) )
        => c1 = c2

\* C7: with a cache directory set, the artifacts not all present and
\* caching_allowed false, the resolution fails with CacheUnavailableError and
\* does not go on to load the artifacts.
C7_MissFailsFast ==
    \A c \in AllCallers :
        ( /\ LookedUp(caller[c])
          /\ caller[c].cfg.path_to_cache # NoPath
          /\ ~caller[c].cfg.caching_allowed
          /\ ~caller[c].cache_hit )
        => (caller[c].pc = "failed" /\ caller[c].error = "CacheUnavailableError")

\* _build_indices has returned to the caller, or raised.
Returned(cl) == cl.how # "none"

SameIndices(cl1, cl2) ==
    /\ cl1.dataset_index = cl2.dataset_index
    /\ cl1.dataset_sample_index = cl2.dataset_sample_index

\* No caller before c has persisted into the cache directory of c.
FoundEmpty(c) ==
    \A d \in AllCallers :
        d < c => ~(Writes(caller[d]) /\ caller[d].cfg.path_to_cache = caller[c].cfg.path_to_cache)

\* C8: a configuration resolved with no cache directory, then with an empty
\* cache directory and caching allowed, then again with that cache directory
\* is built, then built and persisted, then loaded, and the three plans are
\* identical, element for element.
C8_RoundTrip ==
    \A c1, c2, c3 \in AllCallers :
        ( /\ c1 < c2 /\ c2 < c3
          /\ Returned(caller[c1]) /\ Returned(caller[c2]) /\ Returned(caller[c3])
          /\ caller[c1].cfg.path_to_cache = NoPath
          /\ caller[c2].cfg.path_to_cache # NoPath
          /\ caller[c2].cfg.caching_allowed
          /\ FoundEmpty(c2)
          /\ caller[c3].cfg.path_to_cache = caller[c2].cfg.path_to_cache )
        => /\ caller[c1].how = "built"
           /\ caller[c2].how = "persisted"
           /\ caller[c3].how = "loaded"
           /\ SameIndices(caller[c1], caller[c2])
           /\ SameIndices(caller[c2], caller[c3])
           /\ Len(caller[c3].dataset_index) = caller[c3].cfg.size

\* The three resolutions of a round trip have returned.
C8_Witness ==
    \E c1, c2, c3 \in AllCallers :
        /\ c1 < c2 /\ c2 < c3
        /\ caller[c1].how = "built" /\ caller[c1].cfg.path_to_cache = NoPath
        /\ caller[c2].how = "persisted" /\ FoundEmpty(c2)
        /\ caller[c3].how = "loaded"
        /\ caller[c3].cfg.path_to_cache = caller[c2].cfg.path_to_cache
        /\ caller[c3].cfg.size > 1

SameKey(cfg1, cfg2) ==
    /\ Len(cfg1.datasets) = Len(cfg2.datasets)
    /\ \A i \in 1..Len(cfg1.datasets) :
          cfg1.datasets[i].unique_identifiers = cfg2.datasets[i].unique_identifiers
    /\ SelfWeights(cfg1) = SelfWeights(cfg2)
    /\ cfg1.size = cfg2.size

\* The step in which caller c looks the cache up.
Lookup(c) == caller[c].pc = "idle" /\ LookedUp(caller'[c])

\* In its lookup c2 finds, as a hit, the artifacts c1 persisted.
HitOn(c2, c1) ==
    /\ caller'[c2].pc = "load_dataset_index"
    /\ caller'[c2].cache_hit
    /\ ArtifactPaths(caller'[c2].cfg) = ArtifactPaths(caller[c1].cfg)

\* C10 (as stated): a plan persisted for one configuration is never loaded as
\* a hit for a configuration that differs in source order, a source
\* identity, a weight or the size, and it is loaded for a configuration that
\* differs only in cache_directory or caching_allowed.
C10_KeyInterchangeable ==
    [][ \A c1, c2 \in AllCallers :
          ( /\ c1 # c2
            /\ Lookup(c2)
            /\ caller[c1].how = "persisted"
            /\ caller'[c2].cfg.path_to_cache # NoPath )
          => /\ HitOn(c2, c1) => SameKey(caller[c1].cfg, caller'[c2].cfg)
             /\ Blend(caller[c1].cfg) = Blend(caller'[c2].cfg)
                  => (caller'[c2].pc = "load_dataset_index" /\ caller'[c2].cache_hit) ]_vars

\* C10 (amended): a plan persisted for one configuration is never loaded as
\* a hit for a configuration that differs in source order, a source
\* identity, a weight after normalization or the size, and it is loaded for
\* a configuration of the same key and the same cache directory, whatever its
\* caching_allowed.
C10_KeySeparates ==
    [][ \A c1, c2 \in AllCallers :
          ( /\ c1 # c2
            /\ Lookup(c2)
            /\ caller[c1].how = "persisted"
            /\ caller'[c2].cfg.path_to_cache # NoPath )
          => /\ HitOn(c2, c1) => SameKey(caller[c1].cfg, caller'[c2].cfg)
             /\ ( /\ SameKey(caller[c1].cfg, caller'[c2].cfg)
                  /\ caller[c1].cfg.path_to_cache = caller'[c2].cfg.path_to_cache )
                  => HitOn(c2, c1) ]_vars

\* A plan persisted by one caller has been loaded by a caller whose
\* configuration has the same key and the other value of caching_allowed.
C10_Witness ==
    \E c1, c2 \in AllCallers :
        /\ caller[c1].how = "persisted"
        /\ caller[c2].how = "loaded"
        /\ SameKey(caller[c1].cfg, caller[c2].cfg)
        /\ caller[c1].cfg.caching_allowed # caller[c2].cfg.caching_allowed

\* --------------------------------------------------- the planner on its own

WeightVectors ==
    { w \in UNION { [1..k -> 1..MaxWeight] : k \in 1..MaxK } : SeqGCD(w) = 1 }

\* A run for size n goes through the runs for every smaller size (a draw does
\* not depend on the size), so the sizes are the empty plan, one draw, and
\* the largest.
PlannerSizes == {0, 1, MaxSize}

InitPlanner ==
    /\ \E w \in WeightVectors, n \in PlannerSizes :
          planner = PlannerStart(w, Len(w), n)
    /\ caller = [c \in Callers |-> IdleCaller]
    /\ dirs = {}
    /\ files = <<>>

Draw ==
    /\ planner.t < planner.size
    /\ planner' = DrawStep(planner)
    /\ UNCHANGED <<caller, dirs, files>>

NextPlanner == Draw

SpecPlanner == InitPlanner /\ [][NextPlanner]_vars

\* ------------------------------------------------------ claims on the planner

\* The number of the first n draws recorded for source i.
DrawsOf(i, n) == Cardinality({k \in 1..n : planner.dataset_index[k] = i})

PlannerSources == 0..(planner.num_datasets - 1)

PlannerSum == Sum(planner.weights)

C2_SelectionRule ==
    planner.t >= 1 =>
        LET t      == planner.t
            sel    == planner.dataset_index[t]
            def(i) == planner.weights[i + 1] * t - DrawsOf(i, t - 1) * PlannerSum
        IN  /\ sel \in PlannerSources
            /\ \A j \in PlannerSources :
                  /\ def(j) <= def(sel)
                  /\ j < sel => def(j) < def(sel)
                  /\ planner.counts[j + 1] = DrawsOf(j, t - 1) + (IF j = sel THEN 1 ELSE 0)

\* A draw at which two sources share the largest deficit.
C2_Witness ==
    /\ planner.t >= 2
    /\ LET t      == planner.t
           sel    == planner.dataset_index[t]
           def(i) == planner.weights[i + 1] * t - DrawsOf(i, t - 1) * PlannerSum
       IN  \E j \in PlannerSources : j > sel /\ def(j) = def(sel)

\* -------------------------------------------------------- claims on the view

\* The caller's BlendedDataset is constructed: __init__ has returned.
Constructed(cl) == cl.pc = "done"

\* The caller's last call of __getitem__ was with idx.
GotAt(cl, idx) == cl.got.called /\ cl.got.idx = idx

\* C11: a constructed BlendedDataset reports the length N, self[N - 1]
\* returns a sample and self[N] raises an out-of-range error (IndexError).
C11_LengthAndEnds ==
    \A c \in AllCallers :
        Constructed(caller[c]) =>
            /\ Length(caller[c]) = caller[c].cfg.size
            /\ GotAt(caller[c], caller[c].cfg.size - 1) => caller[c].got.error = "none"
            /\ GotAt(caller[c], caller[c].cfg.size) => caller[c].got.error = "IndexError"

\* self[N] has been called on a BlendedDataset constructed from loaded
\* indices, and has raised.
C11_Witness ==
    \E c \in AllCallers :
        /\ Constructed(caller[c])
        /\ caller[c].how = "loaded"
        /\ caller[c].cfg.size >= 1
        /\ GotAt(caller[c], caller[c].cfg.size)
        /\ caller[c].got.error = "IndexError"

\* C12: self[i] raises an out-of-range error (IndexError) for every i outside
\* [0, N), negative or not below N; it returns no sample for such an i.
C12_OutOfRangeRaises ==
    \A c \in AllCallers :
        ( /\ Constructed(caller[c])
          /\ caller[c].got.called
          /\ caller[c].got.idx \notin 0..(caller[c].cfg.size - 1) )
        => caller[c].got.error = "IndexError"

\* C13: for 0 <= i < N, self[i] returns the sample that dataset number
\* dataset_index[i] holds at position dataset_sample_index[i], every key of
\* that sample with its value, and the dataset number added to it.
C13_GetReturnsSample ==
    \A c \in AllCallers :
        ( /\ Constructed(caller[c])
          /\ caller[c].got.called
          /\ caller[c].got.idx \in 0..(caller[c].cfg.size - 1) )
        => /\ caller[c].got.error = "none"
           /\ LET cl  == caller[c]
                  src == cl.dataset_index[cl.got.idx + 1]
                  smp == cl.dataset_sample_index[cl.got.idx + 1]
              IN  /\ src \in 0..(Len(cl.cfg.datasets) - 1)
                  /\ smp \in 0..(cl.cfg.datasets[src + 1].len - 1)
                  /\ DOMAIN cl.got.item = {"dataset_id"} \cup cl.cfg.datasets[src + 1].fields
                  /\ \A f \in cl.cfg.datasets[src + 1].fields :
                        cl.got.item[f] = Sample(cl.cfg.datasets[src + 1], smp)[f]
                  /\ cl.got.item["dataset_id"] = src

\* ------------------------------------------------- claims on the resolution

\* C14: with no cache directory configured, every resolution builds the plan
\* with the planner and neither creates, writes nor reads a cache artifact,
\* whatever caching_allowed is.
C14_NoCacheNoArtifacts ==
    [][ \A c \in AllCallers :
          ( /\ Lookup(c)
            /\ caller'[c].cfg.path_to_cache = NoPath )
          => /\ caller'[c].how = "built"
             /\ Finished(caller'[c])
             /\ caller'[c].dataset_index = BuildIndices(caller'[c].cfg).dataset_index
             /\ caller'[c].dataset_sample_index
                   = BuildIndices(caller'[c].cfg).dataset_sample_index
             /\ files' = files
             /\ dirs' = dirs ]_vars

\* A caller with no cache path and caching not allowed has constructed its
\* BlendedDataset while a cache directory holds files.
C14_Witness ==
    \E c \in AllCallers :
        /\ Constructed(caller[c])
        /\ caller[c].cfg.path_to_cache = NoPath
        /\ ~caller[c].cfg.caching_allowed
        /\ caller[c].how = "built"
        /\ caller[c].cfg.size >= 1
        /\ files # <<>>

\* Caller c leaves the place pc of _build_indices in this step.
Leaves(c, pc) == caller[c].pc = pc /\ caller'[c].pc # pc

\* C15: on a cache miss with a cache directory and caching_allowed true, the
\* resolution builds the plan with the planner, writes the description and
\* both index arrays under the cache key, and returns the plan it built in
\* memory, not one read from disk; once it has completed, every later
\* resolution of the same configuration against the same directory is a
\* cache hit.
C15_MissPersistsThenHit ==
    [][ \A c \in AllCallers :
          /\ ( /\ Lookup(c)
               /\ caller'[c].cfg.path_to_cache # NoPath
               /\ caller'[c].cfg.caching_allowed
               /\ \E p \in ArtifactPaths(caller'[c].cfg) : ~isfile(p) )
             => /\ caller'[c].pc = "makedirs"
                /\ caller'[c].dataset_index = BuildIndices(caller'[c].cfg).dataset_index
                /\ caller'[c].dataset_sample_index
                      = BuildIndices(caller'[c].cfg).dataset_sample_index
          /\ Leaves(c, "makedirs") => caller[c].cfg.path_to_cache \in dirs'
          /\ Leaves(c, "write_description")
                => files'[path_to_description(caller[c].cfg)]
                      = WrittenFile(unique_description(caller[c].cfg))
          /\ Leaves(c, "write_dataset_index")
                => files'[path_to_dataset_index(caller[c].cfg)]
                      = WrittenFile(BuildIndices(caller[c].cfg).dataset_index)
          /\ Leaves(c, "write_dataset_sample_index")
                => /\ files'[path_to_dataset_sample_index(caller[c].cfg)]
                         = WrittenFile(BuildIndices(caller[c].cfg).dataset_sample_index)
                   /\ caller'[c].how = "persisted"
                   /\ SameIndices(caller'[c], caller[c])
          /\ \A d \in AllCallers :
                ( /\ Lookup(c)
                  /\ caller[d].how = "persisted"
                  /\ Blend(caller[d].cfg) = Blend(caller'[c].cfg)
                  /\ caller[d].cfg.path_to_cache = caller'[c].cfg.path_to_cache )
                => (caller'[c].cache_hit /\ caller'[c].pc = "load_dataset_index") ]_vars

\* One caller has persisted the plan it built and a later caller of the same
\* configuration and directory, with caching allowed too, has found a hit
\* and loaded the same plan.
C15_Witness ==
    \E c1, c2 \in AllCallers :
        /\ caller[c1].how = "persisted"
        /\ caller[c2].how = "loaded"
        /\ caller[c2].cache_hit
        /\ caller[c2].cfg = caller[c1].cfg
        /\ SameIndices(caller[c1], caller[c2])
        /\ caller[c2].cfg.size >= 1

\* The check of lines 77-83 fails on the caller's indices: self[N - 1] raises
\* or self[N] does not.
ValidationFails(cl) ==
    GetItemRaises(cl, cl.cfg.size - 1) \/ ~GetItemRaises(cl, cl.cfg.size)

\* C16: if the validation after construction fails (the access at index
\* N - 1 fails or the access at index N succeeds), construction fails with
\* InvariantError (RuntimeError in the code) and with no other kind of error.
C16_ValidationRaisesInvariantError ==
    \A c \in AllCallers :
        (Resolved(caller[c]) /\ ValidationFails(caller[c]))
        => (caller[c].pc = "failed" /\ caller[c].error = "RuntimeError")

\* The artifacts under the key of cfg differ from what _build_indices writes
\* for cfg: in the description or in an array.
Mismatched(cfg) ==
    \/ files[path_to_description(cfg)].data # unique_description(cfg)
    \/ files[path_to_dataset_index(cfg)].data # BuildIndices(cfg).dataset_index
    \/ files[path_to_dataset_sample_index(cfg)].data
          # BuildIndices(cfg).dataset_sample_index

\* C17: artifacts present under the key whose description differs from the
\* description of the configuration, or whose arrays do not match the
\* configuration, are never silently used: the resolution fails with
\* CorruptCacheError and returns no plan loaded from them.
C17_CorruptCacheRejected ==
    \A c \in AllCallers :
        ( /\ caller[c].cache_hit
          /\ Returned(caller[c])
          /\ ArtifactsComplete(caller[c].cfg)
          /\ Mismatched(caller[c].cfg) )
        => (caller[c].pc = "failed" /\ caller[c].error = "CorruptCacheError")

\* C18: every BlendedDataset whose construction returns owns a plan whose two
\* arrays have exactly N entries, and whenever the plan resolved, built or
\* loaded, has an array of another length, construction fails.
C18_ValidOrNotConstructed ==
    \A c \in AllCallers :
        /\ Constructed(caller[c])
             => /\ Len(caller[c].dataset_index) = caller[c].cfg.size
                /\ Len(caller[c].dataset_sample_index) = caller[c].cfg.size
        /\ ( /\ Resolved(caller[c])
             /\ \/ Len(caller[c].dataset_index) # caller[c].cfg.size
                \/ Len(caller[c].dataset_sample_index) # caller[c].cfg.size )
             => caller[c].pc = "failed"

\* ---------------------------------------------------- claims on the arguments

\* C19: construction fails with ConfigError (AssertionError in the code) when
\* the number of weights differs from the number of datasets K, when the
\* weights do not sum to 1, or when K exceeds the ceiling of a 16-bit
\* selector; every K up to and including 32767 is accepted and every larger K
\* is rejected.
C19_ConfigErrorAndCeiling ==
    \A c \in AllCallers :
        caller[c].pc \in {"asserted", "failed"} =>
            LET cfg == caller[c].cfg
                K   == Len(cfg.datasets)
                bad == \/ K > Int16Max
                       \/ Len(cfg.weights.num) # K
                       \/ ~IsCloseToOne(cfg.weights)
            IN  /\ bad => (caller[c].pc = "failed" /\ caller[c].error = "AssertionError")
                /\ ~bad => caller[c].pc = "asserted"

\* C20: a configuration of size N = 0 is valid: the planner yields two empty
\* arrays and the BlendedDataset constructed from them has length 0.
C20_EmptyBlendValid ==
    \A c \in AllCallers :
        ( /\ caller[c].how \in {"built", "persisted"}
          /\ caller[c].cfg.size = 0 )
        => /\ caller[c].dataset_index = <<>>
           /\ caller[c].dataset_sample_index = <<>>
           /\ Constructed(caller[c])
           /\ Length(caller[c]) = 0

\* ---------------------------------------------------- claims on given blends

\* The caller holds indices that _build_indices built.
Built(cl) == cl.how \in {"built", "persisted"}

\* C21: for two sources of lengths 3 and 2 with the weights 0.6 and 0.4 and
\* N = 5 the plan is source_index = [0,1,0,1,0], sample_index = [0,0,1,1,2].
C21_ThreeAndTwo ==
    \A c \in AllCallers :
        (Built(caller[c]) /\ Blend(caller[c].cfg) = BlendOfThreeAndTwo)
        => /\ caller[c].dataset_index = <<0, 1, 0, 1, 0>>
           /\ caller[c].dataset_sample_index = <<0, 0, 1, 1, 2>>

\* The blend of lengths 3 and 2 has been built and its BlendedDataset
\* constructed.
C21_Witness ==
    \E c \in AllCallers :
        /\ Built(caller[c])
        /\ Constructed(caller[c])
        /\ Blend(caller[c].cfg) = BlendOfThreeAndTwo

\* C22: a blend of a single source (K = 1, weight 1.0) is supported:
\* construction succeeds, every entry of source_index is 0 and
\* sample_index[i] = i mod L; for N = 4 and a source of length 2 the plan is
\* source_index = [0,0,0,0], sample_index = [0,1,0,1].
C22_SingleSource ==
    \A c \in AllCallers :
        (Built(caller[c]) /\ Len(caller[c].cfg.datasets) = 1)
        => /\ Constructed(caller[c])
           /\ \A n \in 1..caller[c].cfg.size :
                 /\ caller[c].dataset_index[n] = 0
                 /\ caller[c].dataset_sample_index[n]
                       = (n - 1) % caller[c].cfg.datasets[1].len
           /\ Blend(caller[c].cfg) = BlendOfTwoAlone
                => /\ caller[c].dataset_index = <<0, 0, 0, 0>>
                   /\ caller[c].dataset_sample_index = <<0, 1, 0, 1>>

\* ------------------------------------------------ claims on the cache directory

\* C24: once the description and both index arrays of a key are published,
\* no later or concurrent resolution, in any mode, rewrites, truncates or
\* otherwise modifies any of the three.
C24_WriteOnce ==
    [][ \A c \in AllCallers :
          ( /\ LookedUp(caller[c])
            /\ caller[c].cfg.path_to_cache # NoPath
            /\ ArtifactsComplete(caller[c].cfg) )
          => \A p \in ArtifactPaths(caller[c].cfg) : files'[p] = files[p] ]_vars

\* C25: on a cache hit (a cache directory is configured and the description
\* and both index arrays exist under the key) the resolution loads both
\* arrays, read-only, and neither invokes the planner nor writes to the cache
\* directory, whatever caching_allowed is; each array is the one its file
\* holds when it is loaded.
C25_HitLoadsOnly ==
    [][ \A c \in AllCallers :
          /\ ( /\ Lookup(c)
               /\ caller'[c].cfg.path_to_cache # NoPath
               /\ \A p \in ArtifactPaths(caller'[c].cfg) : isfile(p) )
             => /\ caller'[c].cache_hit
                /\ caller'[c].pc = "load_dataset_index"
                /\ caller'[c].dataset_index = <<>>
                /\ caller'[c].dataset_sample_index = <<>>
                /\ files' = files
                /\ dirs' = dirs
          /\ (caller[c].cache_hit /\ caller'[c] # caller[c])
             => /\ files' = files
                /\ dirs' = dirs
                /\ caller'[c].pc \in {"load_dataset_sample_index", "done", "failed"}
                /\ caller'[c].pc = "load_dataset_sample_index"
                     => caller'[c].dataset_index
                          = files[path_to_dataset_index(caller[c].cfg)].data
                /\ caller'[c].how = "loaded"
                     => /\ caller'[c].dataset_index = caller[c].dataset_index
                        /\ caller'[c].dataset_sample_index
                              = files[path_to_dataset_sample_index(caller[c].cfg)].data ]_vars

\* A caller with caching allowed has found a hit and loaded the arrays.
C25_Witness ==
    \E c \in AllCallers :
        /\ caller[c].cache_hit
        /\ caller[c].cfg.caching_allowed
        /\ caller[c].how = "loaded"
        /\ caller[c].cfg.size >= 1

\* ------------------------------------------------- claims on the source types

\* The configuration with every dataset taken as an instance of one class:
\* lengths, samples and unique_identifiers are kept.
OfOneType(cfg) ==
    [cfg EXCEPT !.datasets =
        [i \in 1..Len(cfg.datasets) |-> [cfg.datasets[i] EXCEPT !.type = "GPTDataset"]]]

\* C26: whether construction succeeds depends on the datasets only through
\* their length, their samples and their unique_identifiers: the arguments
\* are accepted exactly when they are accepted with every dataset taken as an
\* instance of one class, so no configuration is rejected because its
\* datasets are of different classes.
C26_TypesNotInspected ==
    \A c \in AllCallers :
        caller[c].pc \in {"asserted", "failed"} =>
            (caller[c].pc = "asserted" <=> Asserts(OfOneType(caller[c].cfg)))

\* ---------------------------------------------------- claims on termination

\* C27: index construction terminates: the indices built hold exactly size
\* draws, every call of __init__, alone or beside other calls for the same
\* key, eventually returns or fails with an error, and a call that has failed
\* does nothing more (no error is retried).
C27_Terminates ==
    /\ [](\A c \in Callers :
            Built(caller[c]) =>
                /\ Len(caller[c].dataset_index) = caller[c].cfg.size
                /\ Len(caller[c].dataset_sample_index) = caller[c].cfg.size)
    /\ \A c \in Callers : (caller[c].pc # "idle") ~> Finished(caller[c])
    /\ [][\A c \in Callers : caller[c].pc = "failed" => caller'[c] = caller[c]]_vars

\* Two callers of one key have both finished, one of them with an error of
\* the load and the other having persisted the indices.
C27_Witness ==
    \E c, d \in AllCallers :
        /\ caller[c].pc = "failed"
        /\ caller[c].error \in {"FileNotFoundError", "ValueError"}
        /\ caller[d].pc = "done"
        /\ caller[d].how = "persisted"
        /\ SameKey(caller[c].cfg, caller[d].cfg)

\* ------------------------------------------ claims on interrupted persistence

\* C28: when a caller has stopped at any point of the persistence (with none,
\* one or two of the three files written, or one of them opened and not
\* written), every later construction from the same configuration over that
\* directory either gets from _build_indices exactly the indices that are
\* built for the configuration, or fails with an error.
C28_AfterCrash ==
    \A c, d \in AllCallers :
        ( /\ c < d
          /\ caller[c].pc = "crashed"
          /\ Stopped(caller[d]) )
        => \/ /\ Resolved(caller[d])
              /\ caller[d].dataset_index = BuildIndices(caller[d].cfg).dataset_index
              /\ caller[d].dataset_sample_index
                    = BuildIndices(caller[d].cfg).dataset_sample_index
           \/ /\ ~Resolved(caller[d])
              /\ caller[d].pc \in {"failed", "crashed"}
              /\ caller[d].pc = "failed" => caller[d].error # "none"

\* A caller stopped with the sample index opened and not written, and a
\* later caller of the same configuration found the three files and failed
\* in the load.
C28_Witness ==
    \E c, d \in AllCallers :
        /\ c < d
        /\ caller[c].pc = "crashed"
        /\ isfile(path_to_dataset_sample_index(caller[c].cfg))
        /\ ~files[path_to_dataset_sample_index(caller[c].cfg)].complete
        /\ caller[d].cache_hit
        /\ caller[d].pc = "failed"
        /\ caller[d].error = "ValueError"

\* ------------------------------------------------ claims on caching_allowed

\* C29: a construction with caching_allowed false leaves the cache directory
\* as it is in every outcome: no step of such a caller creates a directory,
\* or creates or changes a file.
C29_NotAllowedNoWrites ==
    [][ \A c \in AllCallers :
          (caller'[c] # caller[c] /\ ~caller'[c].cfg.caching_allowed)
          => (files' = files /\ dirs' = dirs) ]_vars

\* A caller with caching_allowed false over a cache directory has finished
\* on a miss, with the error of the load, and the directory and the files of
\* its key are still not there.
C29_Witness ==
    \E c \in AllCallers :
        /\ caller[c].pc = "failed"
        /\ caller[c].error = "FileNotFoundError"
        /\ ~caller[c].cache_hit
        /\ ~caller[c].cfg.caching_allowed
        /\ caller[c].cfg.path_to_cache # NoPath
        /\ caller[c].cfg.path_to_cache \notin dirs
        /\ \A p \in ArtifactPaths(caller[c].cfg) : ~isfile(p)

\* ------------------------------------------------------ claims on dataset_id

\* C30: the "dataset_id" of the dictionary self[idx] returns is
\* dataset_index[idx], also when the sample of the dataset has a key
\* "dataset_id" of its own.
C30_DatasetIdKept ==
    \A c \in AllCallers :
        ( /\ Constructed(caller[c])
          /\ caller[c].got.called
          /\ caller[c].got.error = "none" )
        => caller[c].got.item["dataset_id"]
             = caller[c].dataset_index[
                   Position(Len(caller[c].dataset_index), caller[c].got.idx) + 1]

====
